---- MODULE Spec2Model ----
(***************************************************************************)
(* Model of the catLC core: the finite category FinCategory (category.rs)  *)
(* and the generic RG flow engine RGFlow / ConcreteRGFlow (rg_flow.rs).    *)
(*                                                                         *)
(* Rust vectors are 0-based; the sequences below are 1-based, so a stored  *)
(* index idx of the source is idx + 1 here and 0 stands for None.          *)
(***************************************************************************)
EXTENDS Integers, Sequences, FiniteSets, TLC

\* ------------------------------------------------------------------------
\* Bounds
\* ------------------------------------------------------------------------

\* Longest morphism list handed to FinCategory::new.
MaxMor == 3

\* Largest `steps` argument of iterate.
MaxSteps == 3

\* Largest coordinate of a point of the parameter space.
MaxVal == 4

\* Largest `max_iterations` argument of find_fixed_point.
MaxIter == 20

\* Largest finite value given to a field of a parameter struct.
MaxField == 1

\* Largest number of set calls made on a QTensorField.
MaxSets == 2

\* Object ids (Object::id) that objects and morphism endpoints range over.
ObjIds == {"A", "B", "C"}

\* A morphism as far as the core reads it: the ids of domain and codomain.
Mor == [domain : ObjIds, codomain : ObjIds]

\* The morphism lists FinCategory::new is built from.
MorLists == UNION {[1..n -> Mor] : n \in 0..MaxMor}

\* The object lists FinCategory::new is built from.
ObjLists == {<<"A", "B">>, <<"A", "B", "C">>}

VARIABLES
    objects,          \* FinCategory.objects
    morphisms,        \* FinCategory.morphisms
    identity_map,     \* FinCategory.identity_map
    morphism_map,     \* FinCategory.morphism_map
    composition_map,  \* FinCategory.composition_map
    call,             \* the last operation called on the category, with its arguments
    ret,              \* what that operation returned
    dimension,        \* ConcreteRGFlow.dimension
    step_fn,          \* ConcreteRGFlow.step_fn
    beta_fn,          \* ConcreteRGFlow.beta_fn
    rgCall,           \* the operation called on the flow, with its arguments
    rgPc,             \* where that call stands: "idle", "iterate", "find_fixed_point", "done"
    current,          \* the local `current` of iterate and of find_fixed_point
    remaining,        \* rounds the loop of the call still has to run
    stepCalls,        \* invocations of step_fn made by the call
    rgRet,            \* what the call returned
    object_mapping,   \* ConcreteFunctor.object_mapping
    morphism_mapping, \* ConcreteFunctor.morphism_mapping
    codomain_functor, \* ConcreteNaturalTransformation.codomain_functor
    components,       \* ConcreteNaturalTransformation.components
    funCall,          \* the call made on the functor or the transformation
    funRet,           \* what that call returned
    psCall,           \* the call made on a parameter space
    psRet,            \* what that call returned
    field,            \* a QTensorField: its resolution and its values
    fieldSets,        \* successful or failed set calls made on the field so far
    qCall,            \* the call made on the field or on its configuration
    qRet              \* what that call returned

catVars == <<objects, morphisms, identity_map, morphism_map, composition_map>>
flowVars == <<dimension, step_fn, beta_fn>>
rgVars == <<dimension, step_fn, beta_fn, rgCall, rgPc, current, remaining, stepCalls, rgRet>>
psVars == <<psCall, psRet>>
meshVars == <<field, fieldSets, qCall, qRet>>
funVars == <<object_mapping, morphism_mapping, codomain_functor, components, funCall, funRet>>
vars == <<objects, morphisms, identity_map, morphism_map, composition_map, call, ret,
          dimension, step_fn, beta_fn, rgCall, rgPc, current, remaining, stepCalls, rgRet,
          object_mapping, morphism_mapping, codomain_functor, components, funCall, funRet,
          psCall, psRet, field, fieldSets, qCall, qRet>>

\* ------------------------------------------------------------------------
\* Results
\* ------------------------------------------------------------------------

\* Ok(&self.morphisms[idx])
Ok(idx) == [tag |-> "Ok", idx |-> idx]

\* Err(CategoryError::kind(msg))
Err(kind, msg) == [tag |-> "Err", kind |-> kind, msg |-> msg]

\* Some(&self.morphisms[idx])
Some(idx) == [tag |-> "Some", idx |-> idx]

None == [tag |-> "None"]

\* ------------------------------------------------------------------------
\* FinCategory::new
\* ------------------------------------------------------------------------

\* HashMap::insert: the value of an existing key is overwritten.
MapInsert(map, k, v) == [x \in (DOMAIN map) \cup {k} |-> IF x = k THEN v ELSE map[x]]

EmptyMap == [x \in {} |-> 0]

\* InsertIdentity without the test domain_id == codomain_id.
InsertIdentityAnyMorphism(map, morph, idx) == MapInsert(map, morph.domain, idx)

\* InsertIdentity that keeps the self-loop registered first.
InsertIdentityKeepFirst(map, morph, idx) ==
    IF morph.domain = morph.codomain /\ morph.domain \notin DOMAIN map
    THEN MapInsert(map, morph.domain, idx)
    ELSE map

\* One round of the first loop of new, on identity_map: a self-loop is
\* registered as the identity of its object, overwriting an earlier one.
InsertIdentity(map, morph, idx) ==
    LET domain_id == morph.domain
        codomain_id == morph.codomain
    IN  IF domain_id = codomain_id
        THEN MapInsert(map, domain_id, idx)
        ELSE map

\* identity_map after the first n morphisms of the first loop of new.
RECURSIVE BuildIdentityMap(_, _)
BuildIdentityMap(ms, n) ==
    IF n = 0 THEN EmptyMap
    ELSE InsertIdentity(BuildIdentityMap(ms, n - 1), ms[n], n)

\* PushMorphism with the key built as (codomain_id, domain_id).
PushMorphismSwapped(map, morph, idx) ==
    LET key == <<morph.codomain, morph.domain>>
        old == IF key \in DOMAIN map THEN map[key] ELSE <<>>
    IN  MapInsert(map, key, Append(old, idx))

\* One round of the first loop of new, on morphism_map:
\* entry((domain_id, codomain_id)).or_insert_with(Vec::new).push(idx).
PushMorphism(map, morph, idx) ==
    LET key == <<morph.domain, morph.codomain>>
        old == IF key \in DOMAIN map THEN map[key] ELSE <<>>
    IN  MapInsert(map, key, Append(old, idx))

\* morphism_map after the first n morphisms of the first loop of new.
RECURSIVE BuildMorphismMap(_, _)
BuildMorphismMap(ms, n) ==
    IF n = 0 THEN EmptyMap
    ELSE PushMorphism(BuildMorphismMap(ms, n - 1), ms[n], n)

\* ComposablePairs without the test f.codomain().id() == g.domain().id().
ComposablePairsUnchecked(ms, mmap) ==
    {p \in (1..Len(ms)) \X (1..Len(ms)) :
        /\ <<ms[p[1]].domain, ms[p[2]].codomain>> \in DOMAIN mmap
        /\ mmap[<<ms[p[1]].domain, ms[p[2]].codomain>>] # <<>>}

\* The pairs (i, j) the second loop of new registers a composite for.
ComposablePairs(ms, mmap) ==
    {p \in (1..Len(ms)) \X (1..Len(ms)) :
        /\ ms[p[1]].codomain = ms[p[2]].domain
        /\ <<ms[p[1]].domain, ms[p[2]].codomain>> \in DOMAIN mmap
        /\ mmap[<<ms[p[1]].domain, ms[p[2]].codomain>>] # <<>>}

\* BuildCompositionMap taking the last candidate instead of candidates[0].
BuildCompositionMapLast(ms, mmap) ==
    [p \in ComposablePairs(ms, mmap) |->
        LET candidates == mmap[<<ms[p[1]].domain, ms[p[2]].codomain>>]
        IN  candidates[Len(candidates)]]

\* composition_map: (i, j) -> candidates[0].
BuildCompositionMap(ms, mmap) ==
    [p \in ComposablePairs(ms, mmap) |->
        mmap[<<ms[p[1]].domain, ms[p[2]].codomain>>][1]]

\* ------------------------------------------------------------------------
\* Queries
\* ------------------------------------------------------------------------

\* find_morphism returning the last index of the entry instead of indices[0].
find_morphismLast(domain, codomain) ==
    LET key == <<domain, codomain>>
    IN  IF key \in DOMAIN morphism_map /\ morphism_map[key] # <<>>
        THEN Some(morphism_map[key][Len(morphism_map[key])])
        ELSE None

\* FinCategory::find_morphism
find_morphism(domain, codomain) ==
    LET key == <<domain, codomain>>
    IN  IF key \in DOMAIN morphism_map /\ morphism_map[key] # <<>>
        THEN Some(morphism_map[key][1])
        ELSE None

\* identity falling back on any morphism that leaves obj.
identityOrAnyFrom(obj) ==
    IF obj \in DOMAIN identity_map
    THEN Ok(identity_map[obj])
    ELSE IF \E i \in 1..Len(morphisms) : morphisms[i].domain = obj
         THEN Ok(CHOOSE i \in 1..Len(morphisms) : morphisms[i].domain = obj)
         ELSE Err("IdentityNotFound", obj)

\* FinCategory::identity
identity(obj) ==
    IF obj \in DOMAIN identity_map
    THEN Ok(identity_map[obj])
    ELSE Err("IdentityNotFound", obj)

\* self.morphisms.iter().position(|m| same endpoint ids as f); 0 is None.
RECURSIVE PositionFrom(_, _)
PositionFrom(f, i) ==
    IF i > Len(morphisms) THEN 0
    ELSE IF morphisms[i].domain = f.domain /\ morphisms[i].codomain = f.codomain
         THEN i
         ELSE PositionFrom(f, i + 1)

\* Position that trusts the place the argument claims to have in the list.
PositionByIdx(f) == f.idx

Position(f) == PositionFrom(f, 1)

\* compose that reports an argument it cannot resolve as MorphismNotFound.
composeMorphismNotFound(f, g) ==
    LET f_idx == Position(f)
        g_idx == Position(g)
    IN  IF f_idx = 0 \/ g_idx = 0
        THEN Err("MorphismNotFound", <<f.domain, f.codomain, g.domain, g.codomain>>)
        ELSE IF <<f_idx, g_idx>> \in DOMAIN composition_map
             THEN Ok(composition_map[<<f_idx, g_idx>>])
             ELSE Err("CompositionMismatch", <<f.domain, f.codomain, g.domain, g.codomain>>)

\* FinCategory::compose
compose(f, g) ==
    LET f_idx == Position(f)
        g_idx == Position(g)
    IN  IF f_idx # 0 /\ g_idx # 0 /\ <<f_idx, g_idx>> \in DOMAIN composition_map
        THEN Ok(composition_map[<<f_idx, g_idx>>])
        ELSE Err("CompositionMismatch", <<f.domain, f.codomain, g.domain, g.codomain>>)

\* ------------------------------------------------------------------------
\* The arguments callers pass
\* ------------------------------------------------------------------------

\* A morphism argument: a stored morphism (idx is its place in the list) or a
\* morphism the category does not hold (idx = 0).
StoredArgs == {[domain |-> morphisms[i].domain, codomain |-> morphisms[i].codomain, idx |-> i] :
                  i \in 1..Len(morphisms)}

ForeignArgs == {[domain |-> m.domain, codomain |-> m.codomain, idx |-> 0] : m \in Mor}

MorArgs == StoredArgs \cup ForeignArgs

\* ------------------------------------------------------------------------
\* The RG flow engine: parameter space and supplied functions
\* ------------------------------------------------------------------------

\* Spatial dimensions of flows and of points of the parameter space.
Dims == {2, 3}

\* ParameterSpace: a point with its spatial dimension (spatial_dimension())
\* and, as its vector, one integer coordinate.
Params == [sd : Dims, v : 0..MaxVal]

\* Ok(p)
OkP(p) == [tag |-> "Ok", p |-> p]

\* Err(RGFlowError::DimensionMismatch { expected, actual })
DimensionMismatch(expected, actual) ==
    [tag |-> "Err", kind |-> "DimensionMismatch", expected |-> expected, actual |-> actual]

\* Err(RGFlowError::ParameterOutOfRange(..))
ParameterOutOfRange == [tag |-> "Err", kind |-> "ParameterOutOfRange"]

\* Coordinates are counted in ticks of 10 / 2^15, so that fifteen halvings of
\* 10.0 are exact: 10.0 is TenUnits ticks.
TenUnits == 32768

\* The target of the contracting flow: a point of the parameter space.
Target == MaxVal - 1

\* The functions a ConcreteRGFlow can be built with as step_fn:
\*   "fixed"     every point is a fixed point
\*   "halve"     contracts towards 0
\*   "grow"      moves away from 0 and fails beyond the valid range
\*   "lift"      returns a point of the other spatial dimension
\*   "contract"  x -> target + 0.5 * (x - target)
\*   "expand"    x -> 1.5 * x
StepFns == {"fixed", "halve", "grow", "lift", "contract", "expand"}

\* (self.step_fn)(params)
ApplyStepFn(fn, params) ==
    CASE fn = "fixed" -> OkP(params)
      [] fn = "halve" -> OkP([params EXCEPT !.v = params.v \div 2])
      [] fn = "grow"  -> IF params.v < MaxVal
                         THEN OkP([params EXCEPT !.v = params.v + 1])
                         ELSE ParameterOutOfRange
      [] fn = "lift"  -> OkP([params EXCEPT !.sd = 5 - params.sd])
      [] fn = "contract" -> OkP([params EXCEPT !.v = Target + ((params.v - Target) \div 2)])
      [] fn = "expand" -> OkP([params EXCEPT !.v = (3 * params.v) \div 2])

\* ParameterSpace::is_compatible_with_dimension
\* is_compatible_with_dimension accepting every point.
is_compatible_with_any_dimension(params, dim) == TRUE

is_compatible_with_dimension(params, dim) == params.sd = dim

\* ConcreteRGFlow::do_step
do_step(params) == ApplyStepFn(step_fn, params)

\* RGFlow::step
step(params) ==
    IF ~is_compatible_with_dimension(params, dimension)
    THEN DimensionMismatch(dimension, params.sd)
    ELSE do_step(params)

\* Err(RGFlowError::IterationError(..))
IterationError == [tag |-> "Err", kind |-> "IterationError"]

\* Err(RGFlowError::FixedPointNotFound)
FixedPointNotFound == [tag |-> "Err", kind |-> "FixedPointNotFound"]

\* The functions a ConcreteRGFlow can be built with as beta_fn:
\*   "scaling"  the rate of change x of the coordinate x
\*   "failing"  fails at every point
BetaFns == {"scaling", "failing"}

\* (self.beta_fn)(params)
ApplyBetaFn(fn, params) ==
    CASE fn = "scaling" -> [tag |-> "Ok", vec |-> <<params.v>>]
      [] fn = "failing" -> IterationError

\* ConcreteRGFlow::beta_function
beta_function(params) ==
    IF ~is_compatible_with_dimension(params, dimension)
    THEN DimensionMismatch(dimension, params.sd)
    ELSE ApplyBetaFn(beta_fn, params)

\* Ok(RGFixedPoint { .. }); the exponents 0.1 and 0.2 are counted in tenths.
OkFixedPoint(params, exponents, classification, universality_class, dim) ==
    [tag |-> "Ok",
     fp |-> [parameters |-> params,
             critical_exponents |-> exponents,
             classification |-> classification,
             universality_class |-> universality_class,
             dimension |-> dim]]

\* ConcreteRGFlow::analyze_fixed_point
analyze_fixed_point(fixed_point) ==
    LET beta == beta_function(fixed_point)
    IN  IF beta.tag = "Err"
        THEN beta
        ELSE OkFixedPoint(fixed_point, <<1, 2>>, "stable", "Ising", dimension)

\* ParameterSpace::distance of the one-coordinate space: |a - b|, in ticks.
distance(a, b) == IF a.v >= b.v THEN a.v - b.v ELSE b.v - a.v

\* LessThan as the test d <= tolerance.
LessThanOrEqual(d, tolerance) == d <= tolerance.num \div tolerance.den

\* d < tolerance, for a distance d in ticks and a tolerance num / den ticks.
LessThan(d, tolerance) == d <= (tolerance.num - 1) \div tolerance.den

\* Converged with the test next.distance(&current) <= tolerance.
ConvergedOrEqual(next, cur, tolerance) ==
    LessThan(distance(next, cur), tolerance) \/ distance(next, cur) * tolerance.den = tolerance.num

\* The test of a round of find_fixed_point: next.distance(&current) < tolerance.
Converged(next, cur, tolerance) == LessThan(distance(next, cur), tolerance)

\* AnalyzedPoint handing the previous point to analyze_fixed_point.
AnalyzedPointPrevious(next, cur) == cur

\* The point a converged round hands to analyze_fixed_point: &next.
AnalyzedPoint(next, cur) == next

\* FixedPointRounds of a loop that runs one round too many.
FixedPointRoundsLong(max_iterations) == max_iterations + 1

\* FixedPointRounds of a loop that stops one round early.
FixedPointRoundsShort(max_iterations) ==
    IF max_iterations > 0 THEN max_iterations - 1 ELSE 0

\* The number of rounds of the loop of find_fixed_point over max_iterations.
FixedPointRounds(max_iterations) == max_iterations

\* ExhaustedResult returning the last point reached as if it were a result.
ExhaustedResultLastPoint(cur) == OkP(cur)

\* What find_fixed_point returns after its loop: Err(FixedPointNotFound).
ExhaustedResult(cur) == FixedPointNotFound

\* LoopRounds of an inclusive range 0..=steps.
LoopRoundsInclusive(steps) == steps + 1

\* The number of rounds of `for _ in 0..steps`.
LoopRounds(steps) == steps

\* RoundInput passing &initial in every round.
RoundInputInitial(initial, cur) == initial

\* The argument of do_step in a round of iterate: &current.
RoundInput(initial, cur) == cur

\* ------------------------------------------------------------------------
\* Operations of the flow
\* ------------------------------------------------------------------------

\* step(params): one handler, the dimension check and then do_step.
Step ==
    /\ rgPc = "idle"
    /\ \E params \in Params :
           /\ rgCall' = [op |-> "step", params |-> params]
           /\ rgRet' = step(params)
           /\ stepCalls' = IF is_compatible_with_dimension(params, dimension) THEN 1 ELSE 0
    /\ rgPc' = "done"
    /\ UNCHANGED <<flowVars, current, remaining, catVars, call, ret, funVars, psVars, meshVars>>

\* iterate(initial, steps) up to the loop: the dimension check on initial
\* and `let mut current = initial.clone()`.
IterateCall ==
    /\ rgPc = "idle"
    /\ \E initial \in Params, steps \in 0..MaxSteps :
           /\ rgCall' = [op |-> "iterate", initial |-> initial, steps |-> steps]
           /\ IF ~is_compatible_with_dimension(initial, dimension)
              THEN /\ rgRet' = DimensionMismatch(dimension, initial.sd)
                   /\ rgPc' = "done"
                   /\ UNCHANGED <<current, remaining>>
              ELSE /\ current' = initial
                   /\ remaining' = LoopRounds(steps)
                   /\ rgPc' = "iterate"
                   /\ UNCHANGED rgRet
    /\ stepCalls' = 0
    /\ UNCHANGED <<flowVars, catVars, call, ret, funVars, psVars, meshVars>>

\* One round of the loop of iterate: current = self.do_step(&current)?
IterateRound ==
    /\ rgPc = "iterate"
    /\ remaining > 0
    /\ LET r == do_step(RoundInput(rgCall.initial, current))
       IN  /\ stepCalls' = stepCalls + 1
           /\ IF r.tag = "Err"
              THEN /\ rgRet' = r
                   /\ rgPc' = "done"
                   /\ UNCHANGED <<current, remaining>>
              ELSE /\ current' = r.p
                   /\ remaining' = remaining - 1
                   /\ UNCHANGED <<rgRet, rgPc>>
    /\ UNCHANGED <<flowVars, rgCall, catVars, call, ret, funVars, psVars, meshVars>>

\* The loop of iterate is over: Ok(current)
IterateReturn ==
    /\ rgPc = "iterate"
    /\ remaining = 0
    /\ rgRet' = OkP(current)
    /\ rgPc' = "done"
    /\ UNCHANGED <<flowVars, rgCall, current, remaining, stepCalls, catVars, call, ret, funVars, psVars, meshVars>>

\* The tolerances find_fixed_point is called with, in ticks: negative, zero,
\* one and two ticks, and 0.001 = 10.0 / 10000.
Tolerances ==
    {[num |-> -1, den |-> 1], [num |-> 0, den |-> 1], [num |-> 1, den |-> 1],
     [num |-> 2, den |-> 1], [num |-> TenUnits, den |-> 10000]}

\* The initial points find_fixed_point is called with: the points of Params,
\* target + 10.0 and 10.0.
InitialPoints ==
    Params \cup [sd : Dims, v : {Target + TenUnits, TenUnits}]

\* find_fixed_point(initial, max_iterations, tolerance) up to the loop: the
\* dimension check on initial and `let mut current = initial.clone()`.
FindFixedPointCall ==
    /\ rgPc = "idle"
    /\ \E initial \in InitialPoints, max_iterations \in 0..MaxIter, tolerance \in Tolerances :
           /\ rgCall' = [op |-> "find_fixed_point", initial |-> initial,
                         max_iterations |-> max_iterations, tolerance |-> tolerance]
           /\ IF ~is_compatible_with_dimension(initial, dimension)
              THEN /\ rgRet' = DimensionMismatch(dimension, initial.sd)
                   /\ rgPc' = "done"
                   /\ UNCHANGED <<current, remaining>>
              ELSE /\ current' = initial
                   /\ remaining' = FixedPointRounds(max_iterations)
                   /\ rgPc' = "find_fixed_point"
                   /\ UNCHANGED rgRet
    /\ stepCalls' = 0
    /\ UNCHANGED <<flowVars, catVars, call, ret, funVars, psVars, meshVars>>

\* A round of find_fixed_point that recovers from a failed step by skipping
\* the round.
FindFixedPointRoundRecovering ==
    /\ rgPc = "find_fixed_point"
    /\ remaining > 0
    /\ LET next == do_step(current)
       IN  /\ stepCalls' = stepCalls + 1
           /\ IF next.tag = "Err"
              THEN /\ remaining' = remaining - 1
                   /\ UNCHANGED <<current, rgRet, rgPc>>
              ELSE IF Converged(next.p, current, rgCall.tolerance)
                   THEN /\ rgRet' = analyze_fixed_point(AnalyzedPoint(next.p, current))
                        /\ rgPc' = "done"
                        /\ UNCHANGED <<current, remaining>>
                   ELSE /\ current' = next.p
                        /\ remaining' = remaining - 1
                        /\ UNCHANGED <<rgRet, rgPc>>
    /\ UNCHANGED <<flowVars, rgCall, catVars, call, ret, funVars, psVars, meshVars>>

\* One round of the loop of find_fixed_point.
FindFixedPointRound ==
    /\ rgPc = "find_fixed_point"
    /\ remaining > 0
    /\ LET next == do_step(current)
       IN  /\ stepCalls' = stepCalls + 1
           /\ IF next.tag = "Err"
              THEN /\ rgRet' = next
                   /\ rgPc' = "done"
                   /\ UNCHANGED <<current, remaining>>
              ELSE IF Converged(next.p, current, rgCall.tolerance)
                   THEN /\ rgRet' = analyze_fixed_point(AnalyzedPoint(next.p, current))
                        /\ rgPc' = "done"
                        /\ UNCHANGED <<current, remaining>>
                   ELSE /\ current' = next.p
                        /\ remaining' = remaining - 1
                        /\ UNCHANGED <<rgRet, rgPc>>
    /\ UNCHANGED <<flowVars, rgCall, catVars, call, ret, funVars, psVars, meshVars>>

\* The loop of find_fixed_point is exhausted: Err(FixedPointNotFound)
FindFixedPointExhausted ==
    /\ rgPc = "find_fixed_point"
    /\ remaining = 0
    /\ rgRet' = ExhaustedResult(current)
    /\ rgPc' = "done"
    /\ UNCHANGED <<flowVars, rgCall, current, remaining, stepCalls, catVars, call, ret, funVars, psVars, meshVars>>

\* analyze_fixed_point(fixed_point), called from outside the search.
AnalyzeFixedPoint ==
    /\ rgPc = "idle"
    /\ \E fixed_point \in Params :
           /\ rgCall' = [op |-> "analyze_fixed_point", fixed_point |-> fixed_point]
           /\ rgRet' = analyze_fixed_point(fixed_point)
    /\ rgPc' = "done"
    /\ UNCHANGED <<flowVars, current, remaining, stepCalls, catVars, call, ret, funVars, psVars, meshVars>>

\* beta_function(params)
BetaFunction ==
    /\ rgPc = "idle"
    /\ \E params \in Params :
           /\ rgCall' = [op |-> "beta_function", params |-> params]
           /\ rgRet' = beta_function(params)
    /\ rgPc' = "done"
    /\ UNCHANGED <<flowVars, current, remaining, stepCalls, catVars, call, ret, funVars, psVars, meshVars>>

\* ------------------------------------------------------------------------
\* ConcreteFunctor and ConcreteNaturalTransformation
\* ------------------------------------------------------------------------

\* Ok(morphism of the target category)
OkMor(m) == [tag |-> "Ok", mor |-> m]

\* The functions a ConcreteFunctor can be built with as object_mapping:
\*   "same"      every object to itself
\*   "collapse"  every object to A
\*   "swap"      A to B and B to A
ObjectMappings == {"same", "collapse", "swap"}

\* The functions a ConcreteFunctor can be built with as morphism_mapping:
\*   "same"     every morphism to itself
\*   "to_idA"   every morphism to the identity of A
\*   "to_f"     every morphism to f: A -> B
\*   "failing"  fails on every morphism
MorphismMappings == {"same", "to_idA", "to_f", "failing"}

\* The functions a ConcreteNaturalTransformation can be built with as
\* components:
\*   "identities"  the morphism obj -> obj at every object obj
\*   "to_f"        f: A -> B at every object
ComponentFns == {"identities", "to_f"}

\* (mapping)(obj)
ApplyObjectMapping(fn, obj) ==
    CASE fn = "same" -> obj
      [] fn = "collapse" -> "A"
      [] fn = "swap" -> IF obj = "A" THEN "B" ELSE IF obj = "B" THEN "A" ELSE obj

\* (mapping)(morph)
ApplyMorphismMapping(fn, morph) ==
    CASE fn = "same" -> OkMor(morph)
      [] fn = "to_idA" -> OkMor([domain |-> "A", codomain |-> "A"])
      [] fn = "to_f" -> OkMor([domain |-> "A", codomain |-> "B"])
      [] fn = "failing" -> Err("MorphismNotFound", <<morph.domain, morph.codomain>>)

\* (components)(obj)
ApplyComponents(fn, obj) ==
    CASE fn = "identities" -> [domain |-> obj, codomain |-> obj]
      [] fn = "to_f" -> [domain |-> "A", codomain |-> "B"]

\* ConcreteFunctor::map_object
map_object(obj) == ApplyObjectMapping(object_mapping, obj)

\* ConcreteFunctor::map_morphism
map_morphism(morph) == ApplyMorphismMapping(morphism_mapping, morph)

\* ConcreteFunctor::verify_functor_laws
verify_functor_laws(source, target) == TRUE

\* ConcreteNaturalTransformation::component_at
component_at(obj) == ApplyComponents(components, obj)

\* ConcreteNaturalTransformation::verify_naturality
verify_naturality(f) == TRUE

\* map_object(obj)
MapObject ==
    /\ funCall.op = "none"
    /\ \E obj \in ObjIds :
           /\ funCall' = [op |-> "map_object", obj |-> obj]
           /\ funRet' = [tag |-> "Ob", obj |-> map_object(obj)]
    /\ UNCHANGED <<catVars, call, ret, rgVars,
                   object_mapping, morphism_mapping, codomain_functor, components, psVars, meshVars>>

\* map_morphism(morph)
MapMorphism ==
    /\ funCall.op = "none"
    /\ \E morph \in Mor :
           /\ funCall' = [op |-> "map_morphism", morph |-> morph]
           /\ funRet' = map_morphism(morph)
    /\ UNCHANGED <<catVars, call, ret, rgVars,
                   object_mapping, morphism_mapping, codomain_functor, components, psVars, meshVars>>

\* verify_functor_laws(source, target), both the category of the state
VerifyFunctorLaws ==
    /\ funCall.op = "none"
    /\ funCall' = [op |-> "verify_functor_laws"]
    /\ funRet' = [tag |-> "Bool", val |-> verify_functor_laws(morphisms, morphisms)]
    /\ UNCHANGED <<catVars, call, ret, rgVars,
                   object_mapping, morphism_mapping, codomain_functor, components, psVars, meshVars>>

\* component_at(obj)
ComponentAt ==
    /\ funCall.op = "none"
    /\ \E obj \in ObjIds :
           /\ funCall' = [op |-> "component_at", obj |-> obj]
           /\ funRet' = [tag |-> "Mor", mor |-> component_at(obj)]
    /\ UNCHANGED <<catVars, call, ret, rgVars,
                   object_mapping, morphism_mapping, codomain_functor, components, psVars, meshVars>>

\* verify_naturality(f)
VerifyNaturality ==
    /\ funCall.op = "none"
    /\ \E f \in Mor :
           /\ funCall' = [op |-> "verify_naturality", f |-> f]
           /\ funRet' = [tag |-> "Bool", val |-> verify_naturality(f)]
    /\ UNCHANGED <<catVars, call, ret, rgVars,
                   object_mapping, morphism_mapping, codomain_functor, components, psVars, meshVars>>

\* The functor and the transformation of a state that uses neither.
FunctorUnused ==
    /\ object_mapping = "same"
    /\ morphism_mapping = "same"
    /\ codomain_functor = [object_mapping |-> "same", morphism_mapping |-> "same"]
    /\ components = "identities"
    /\ funCall = [op |-> "none"]
    /\ funRet = [tag |-> "Unit"]

\* ------------------------------------------------------------------------
\* The parameter spaces: MicroscopicParameters, MesoscopicParameters and
\* MacroscopicParameters
\* ------------------------------------------------------------------------

\* An f64: a finite number v, or NaN.
Finite(v) == [nan |-> FALSE, v |-> v]
NaN == [nan |-> TRUE, v |-> 0]

\* x - y of two f64.
F64Sub(x, y) == IF x.nan \/ y.nan THEN NaN ELSE Finite(x.v - y.v)

\* x == y of two f64: NaN equals nothing.
F64Eq(x, y) == ~x.nan /\ ~y.nan /\ x.v = y.v

\* The temperature MicroscopicParameters::from_vector fills in.
DefaultTemperature == 300

\* The values a field is given: NaN and 0 .. MaxField.
FieldVals == {NaN} \cup {Finite(v) : v \in 0..MaxField}

Kinds == {"micro", "meso", "macro"}

\* The fields of the three structs.
FieldNames(kind) ==
    CASE kind = "micro" -> {"a", "b", "c", "l1", "l2", "l3", "h", "temperature"}
      [] kind = "meso" -> {"a", "b", "c", "l1", "l2", "h", "temperature", "xi"}
      [] kind = "macro" -> {"k1", "k2", "k3", "chi_a", "temperature", "core_energy"}

\* A value of the struct with every field 0 and the temperature 300.
BasePoint(kind) ==
    [f \in FieldNames(kind) |->
        IF f = "temperature" THEN Finite(DefaultTemperature) ELSE Finite(0)]

\* The values of the struct the calls are made on: a base point with up to
\* two fields changed.
Points(kind) ==
    {[[BasePoint(kind) EXCEPT ![f] = x] EXCEPT ![g] = y] :
        f \in FieldNames(kind), g \in FieldNames(kind), x \in FieldVals, y \in FieldVals}

\* ParameterSpace::dimension
param_dimension(kind, self) ==
    CASE kind = "micro" -> 7
      [] kind = "meso" -> 8
      [] kind = "macro" -> 6

\* ParameterSpace::as_vector
as_vector(kind, self) ==
    CASE kind = "micro" ->
             <<self.a, self.b, self.c, self.l1, self.l2, self.l3, self.h>>
      [] kind = "meso" ->
             <<self.a, self.b, self.c, self.l1, self.l2, self.h, self.temperature, self.xi>>
      [] kind = "macro" ->
             <<self.k1, self.k2, self.k3, self.chi_a, self.temperature, self.core_energy>>

\* ParameterSpace::from_vector
from_vector(kind, vec) ==
    CASE kind = "micro" ->
             IF Len(vec) # 7 THEN ParameterOutOfRange
             ELSE OkP([a |-> vec[1], b |-> vec[2], c |-> vec[3], l1 |-> vec[4],
                       l2 |-> vec[5], l3 |-> vec[6], h |-> vec[7],
                       temperature |-> Finite(DefaultTemperature)])
      [] kind = "meso" ->
             IF Len(vec) # 8 THEN ParameterOutOfRange
             ELSE OkP([a |-> vec[1], b |-> vec[2], c |-> vec[3], l1 |-> vec[4],
                       l2 |-> vec[5], h |-> vec[6], temperature |-> vec[7], xi |-> vec[8]])
      [] kind = "macro" ->
             IF Len(vec) # 6 THEN ParameterOutOfRange
             ELSE OkP([k1 |-> vec[1], k2 |-> vec[2], k3 |-> vec[3], chi_a |-> vec[4],
                       temperature |-> vec[5], core_energy |-> vec[6]])

\* u - v of two vectors of the same length.
VecSub(u, v) == [i \in 1..Len(u) |-> F64Sub(u[i], v[i])]

\* The sum of the squares of the entries i..Len(vec) of a vector of finite
\* entries.
RECURSIVE SumSquares(_, _)
SumSquares(vec, i) ==
    IF i > Len(vec) THEN 0 ELSE vec[i].v * vec[i].v + SumSquares(vec, i + 1)

\* vec.norm(): the root of the sum of squares, kept as its square; NaN when an
\* entry is NaN.
norm(vec) ==
    IF \E i \in 1..Len(vec) : vec[i].nan THEN NaN ELSE Finite(SumSquares(vec, 1))

\* distance as the norm of the vector of self alone.
vector_distanceFromOrigin(kind, self, other) == norm(as_vector(kind, self))

\* ParameterSpace::distance
vector_distance(kind, self, other) ==
    norm(VecSub(as_vector(kind, self), as_vector(kind, other)))

\* No call on a parameter space is in flight.
NoParameterCall ==
    /\ psCall = [op |-> "none"]
    /\ psRet = [tag |-> "Unit"]

\* p.dimension()
ParamDimension ==
    /\ psCall.op = "none"
    /\ \E kind \in Kinds :
           \E p \in Points(kind) :
               /\ psCall' = [op |-> "dimension", kind |-> kind, p |-> p]
               /\ psRet' = [tag |-> "Usize", n |-> param_dimension(kind, p)]
    /\ UNCHANGED <<catVars, call, ret, rgVars, funVars, meshVars>>

\* p.as_vector()
AsVector ==
    /\ psCall.op = "none"
    /\ \E kind \in Kinds :
           \E p \in Points(kind) :
               /\ psCall' = [op |-> "as_vector", kind |-> kind, p |-> p]
               /\ psRet' = [tag |-> "Vec", vec |-> as_vector(kind, p)]
    /\ UNCHANGED <<catVars, call, ret, rgVars, funVars, meshVars>>

\* P::from_vector(vec), on the vector as_vector returned or on that vector
\* without its last entry.
FromVector ==
    /\ psCall.op = "as_vector"
    /\ \E vec \in {psRet.vec, SubSeq(psRet.vec, 1, Len(psRet.vec) - 1)} :
           /\ psCall' = [op |-> "from_vector", kind |-> psCall.kind, p |-> psCall.p,
                         vec |-> vec]
           /\ psRet' = from_vector(psCall.kind, vec)
    /\ UNCHANGED <<catVars, call, ret, rgVars, funVars, meshVars>>

\* a.distance(&b)
Distance ==
    /\ psCall.op = "none"
    /\ \E kind \in Kinds :
           \E a \in Points(kind), b \in Points(kind) :
               /\ psCall' = [op |-> "distance", kind |-> kind, a |-> a, b |-> b]
               /\ psRet' = [tag |-> "F64", d |-> vector_distance(kind, a, b)]
    /\ UNCHANGED <<catVars, call, ret, rgVars, funVars, meshVars>>

\* ------------------------------------------------------------------------
\* QTensorField and the object mapping of the meso-to-macro functor
\* ------------------------------------------------------------------------

\* The Q-tensors a grid point holds: the zero matrix of QTensorField::new,
\* and ordered tensors with director x or y.
QTensors == {"zero", "x", "y"}

\* QTensor::to_director: the scalar order parameter (as its test < 0.1) and
\* the director; the zero matrix has order 0 and the first eigenvector.
to_director(q) ==
    CASE q = "zero" -> [low |-> TRUE, n |-> "x"]
      [] q = "x" -> [low |-> FALSE, n |-> "x"]
      [] q = "y" -> [low |-> FALSE, n |-> "y"]

\* The resolution (nx, ny, nz) of the field.
Resolution == <<3, 3, 3>>

\* QTensorField::new(resolution, spacing)
NewField(resolution) ==
    [resolution |-> resolution,
     values |-> [n \in 1..(resolution[1] * resolution[2] * resolution[3]) |-> "zero"]]

\* The grid coordinates calls are made with, in each direction: inside the
\* resolution and one past its end.
Coords == 1..Resolution[1]

\* i * resolution.1 * resolution.2 + j * resolution.2 + k
FlatIndex(f, i, j, k) ==
    i * f.resolution[2] * f.resolution[3] + j * f.resolution[3] + k

\* self.values.get(idx): the Vec is indexed from 0.
ValuesGet(f, idx) ==
    IF idx < Len(f.values) THEN [tag |-> "Some", q |-> f.values[idx + 1]] ELSE None

\* QTensorField::get
field_get(f, i, j, k) == ValuesGet(f, FlatIndex(f, i, j, k))

\* Err(MesoscopicError::InvalidFieldConfiguration)
InvalidFieldConfiguration == [tag |-> "Err", kind |-> "InvalidFieldConfiguration"]

\* QTensorField::set: the result and the field after the call.
field_set(f, i, j, k, q) ==
    LET idx == FlatIndex(f, i, j, k)
    IN  IF idx < Len(f.values)
        THEN [ret |-> [tag |-> "Ok"],
              field |-> [f EXCEPT !.values = [f.values EXCEPT ![idx + 1] = q]]]
        ELSE [ret |-> InvalidFieldConfiguration, field |-> f]

\* The grid points the loops `for i in 1..nx-1`, `for j in 1..ny-1`,
\* `for k in 1..nz-1` visit.
InteriorPoints(f) ==
    {<<i, j, k>> : i \in 1..(f.resolution[1] - 2), j \in 1..(f.resolution[2] - 2),
                   k \in 1..(f.resolution[3] - 2)}

\* The number of the neighbours at i+1, j+1, k+1 whose director is not the
\* director of the centre: each adds |n - n_center| = sqrt(2) to the gradient.
DifferingNeighbours(f, pt) ==
    LET c == to_director(field_get(f, pt[1], pt[2], pt[3]).q).n
        differs(r) == IF to_director(r.q).n # c THEN 1 ELSE 0
    IN  differs(field_get(f, pt[1] + 1, pt[2], pt[3]))
            + differs(field_get(f, pt[1], pt[2] + 1, pt[3]))
            + differs(field_get(f, pt[1], pt[2], pt[3] + 1))

\* The test of a grid point: all four lookups are Some, gradient_norm > 1.0
\* and s_center < 0.1.
IsDefect(f, pt) ==
    /\ field_get(f, pt[1], pt[2], pt[3]).tag = "Some"
    /\ field_get(f, pt[1] + 1, pt[2], pt[3]).tag = "Some"
    /\ field_get(f, pt[1], pt[2] + 1, pt[3]).tag = "Some"
    /\ field_get(f, pt[1], pt[2], pt[3] + 1).tag = "Some"
    /\ DifferingNeighbours(f, pt) >= 1
    /\ to_director(field_get(f, pt[1], pt[2], pt[3]).q).low

\* The defects found, in the order of the loops.
RECURSIVE DefectPositions(_, _)
DefectPositions(f, pts) ==
    IF pts = {} THEN <<>>
    ELSE LET first == CHOOSE pt \in pts :
                          \A other \in pts :
                              FlatIndex(f, pt[1], pt[2], pt[3])
                                  <= FlatIndex(f, other[1], other[2], other[3])
         IN  (IF IsDefect(f, first) THEN <<first>> ELSE <<>>)
                 \o DefectPositions(f, pts \ {first})

\* The values rand::random::<f64>() > 0.5 selects between: 1.0 and -1.0.
Charges == {1, -1}

\* The MacroscopicConfigurations the object mapping of the meso-to-macro
\* functor can return for a configuration with field f: one per outcome of
\* the random draws, one draw for each defect.
object_mapping_meso_to_macro(f) ==
    LET positions == DefectPositions(f, InteriorPoints(f))
    IN  {[dimensions |-> f.resolution,
          defects |-> [n \in 1..Len(positions) |->
                          [position |-> positions[n], charge |-> draws[n]]]] :
            draws \in [1..Len(positions) -> Charges]}

\* field.set(i, j, k, q)
FieldSet ==
    /\ qCall.op \in {"none", "set"}
    /\ fieldSets < MaxSets
    /\ \E i \in Coords, j \in Coords, k \in Coords, q \in QTensors :
           /\ qCall' = [op |-> "set", i |-> i, j |-> j, k |-> k, q |-> q, before |-> field]
           /\ qRet' = field_set(field, i, j, k, q).ret
           /\ field' = field_set(field, i, j, k, q).field
    /\ fieldSets' = fieldSets + 1
    /\ UNCHANGED <<catVars, call, ret, rgVars, funVars, psVars>>

\* field.get(i, j, k)
FieldGet ==
    /\ qCall.op \in {"none", "set"}
    /\ \E i \in Coords, j \in Coords, k \in Coords :
           /\ qCall' = [op |-> "get", i |-> i, j |-> j, k |-> k]
           /\ qRet' = field_get(field, i, j, k)
    /\ UNCHANGED <<catVars, call, ret, rgVars, funVars, psVars, field, fieldSets>>

\* (object_mapping)(&meso_obj) for the configuration that holds the field
ObjectMapping ==
    /\ qCall.op \in {"none", "set"}
    /\ \E macro \in object_mapping_meso_to_macro(field) :
           /\ qCall' = [op |-> "object_mapping", calls |-> 1]
           /\ qRet' = [tag |-> "Ob", obj |-> macro]
    /\ UNCHANGED <<catVars, call, ret, rgVars, funVars, psVars, field, fieldSets>>

\* (object_mapping)(&meso_obj) once more, for the same configuration
ObjectMappingAgain ==
    /\ qCall.op = "object_mapping"
    /\ qCall.calls = 1
    /\ \E macro \in object_mapping_meso_to_macro(field) :
           /\ qCall' = [op |-> "object_mapping", calls |-> 2, earlier |-> qRet.obj]
           /\ qRet' = [tag |-> "Ob", obj |-> macro]
    /\ UNCHANGED <<catVars, call, ret, rgVars, funVars, psVars, field, fieldSets>>

\* The field of a state that makes no call on it.
FieldUnused ==
    /\ field = NewField(Resolution)
    /\ fieldSets = 0
    /\ qCall = [op |-> "none"]
    /\ qRet = [tag |-> "Unit"]

\* No call on the flow is in flight.
RGIdle ==
    /\ rgCall = [op |-> "none"]
    /\ rgPc = "idle"
    /\ current = [sd |-> dimension, v |-> 0]
    /\ remaining = 0
    /\ stepCalls = 0
    /\ rgRet = [tag |-> "Unit"]

\* ------------------------------------------------------------------------
\* Specification of the category
\* ------------------------------------------------------------------------

Init ==
    /\ objects \in ObjLists
    /\ morphisms \in MorLists
    /\ identity_map = BuildIdentityMap(morphisms, Len(morphisms))
    /\ morphism_map = BuildMorphismMap(morphisms, Len(morphisms))
    /\ composition_map = BuildCompositionMap(morphisms, morphism_map)
    /\ call = [op |-> "new"]
    /\ ret = [tag |-> "Self"]
    /\ dimension = 3
    /\ step_fn = "fixed"
    /\ beta_fn = "scaling"
    /\ RGIdle
    /\ FunctorUnused
    /\ NoParameterCall
    /\ FieldUnused

\* No call is in flight: the caller holds no result of the category.
Idle == call.op \in {"new", "none"}

Identity ==
    /\ Idle
    /\ \E obj \in ObjIds :
           /\ call' = [op |-> "identity", obj |-> obj]
           /\ ret' = identity(obj)
    /\ UNCHANGED <<catVars, rgVars, funVars, psVars, meshVars>>

FindMorphism ==
    /\ Idle
    /\ \E domain \in ObjIds, codomain \in ObjIds :
           /\ call' = [op |-> "find_morphism", domain |-> domain, codomain |-> codomain]
           /\ ret' = find_morphism(domain, codomain)
    /\ UNCHANGED <<catVars, rgVars, funVars, psVars, meshVars>>

\* objects()
Objects ==
    /\ Idle
    /\ call' = [op |-> "objects"]
    /\ ret' = [tag |-> "Slice", items |-> objects]
    /\ UNCHANGED <<catVars, rgVars, funVars, psVars, meshVars>>

\* morphisms()
Morphisms ==
    /\ Idle
    /\ call' = [op |-> "morphisms"]
    /\ ret' = [tag |-> "Slice", items |-> morphisms]
    /\ UNCHANGED <<catVars, rgVars, funVars, psVars, meshVars>>

\* compose that records a failed lookup of two stored morphisms in
\* composition_map.
ComposeCaching ==
    /\ Idle
    /\ \E f \in MorArgs, g \in MorArgs :
           /\ call' = [op |-> "compose", f |-> f, g |-> g]
           /\ ret' = compose(f, g)
           /\ composition_map' =
                  IF compose(f, g).tag = "Err" /\ Position(f) # 0 /\ Position(g) # 0
                  THEN MapInsert(composition_map, <<Position(f), Position(g)>>, Position(f))
                  ELSE composition_map
    /\ UNCHANGED <<objects, morphisms, identity_map, morphism_map, rgVars, funVars, psVars, meshVars>>

Compose ==
    /\ Idle
    /\ \E f \in MorArgs, g \in MorArgs :
           /\ call' = [op |-> "compose", f |-> f, g |-> g]
           /\ ret' = compose(f, g)
    /\ UNCHANGED <<catVars, rgVars, funVars, psVars, meshVars>>

\* The caller lets go of the returned reference (the borrow of &self ends).
Drop ==
    /\ ~Idle
    /\ call' = [op |-> "none"]
    /\ ret' = [tag |-> "Unit"]
    /\ UNCHANGED <<catVars, rgVars, funVars, psVars, meshVars>>

Next == Objects \/ Morphisms \/ Identity \/ FindMorphism \/ Compose \/ Drop

Spec == Init /\ [][Next]_vars

\* ------------------------------------------------------------------------
\* Specification of the flow
\* ------------------------------------------------------------------------

\* The category a flow is built with: objects A, B and f: A->B, idA, idB.
FlowCategory ==
    <<[domain |-> "A", codomain |-> "B"],
      [domain |-> "A", codomain |-> "A"],
      [domain |-> "B", codomain |-> "B"]>>

\* ConcreteRGFlow::new
InitRG ==
    /\ objects = <<"A", "B">>
    /\ morphisms = FlowCategory
    /\ identity_map = BuildIdentityMap(morphisms, Len(morphisms))
    /\ morphism_map = BuildMorphismMap(morphisms, Len(morphisms))
    /\ composition_map = BuildCompositionMap(morphisms, morphism_map)
    /\ call = [op |-> "new"]
    /\ ret = [tag |-> "Self"]
    /\ dimension \in Dims
    /\ step_fn \in StepFns
    /\ beta_fn \in BetaFns
    /\ RGIdle
    /\ FunctorUnused
    /\ NoParameterCall
    /\ FieldUnused

NextRG ==
    \/ Step
    \/ IterateCall
    \/ IterateRound
    \/ IterateReturn
    \/ FindFixedPointCall
    \/ FindFixedPointRound
    \/ FindFixedPointExhausted
    \/ AnalyzeFixedPoint
    \/ BetaFunction

SpecRG == InitRG /\ [][NextRG]_vars

\* The engine is sequential and every call of the supplied functions returns:
\* a search that can make its next round, or leave its loop, does so.
SpecRGFair ==
    /\ InitRG
    /\ [][NextRG]_vars
    /\ WF_vars(FindFixedPointRound)
    /\ WF_vars(FindFixedPointExhausted)

\* A second search that resumes from the point the earlier search left.
FindFixedPointAgainResuming ==
    /\ rgPc = "done"
    /\ rgCall.op = "find_fixed_point"
    /\ "earlier" \notin DOMAIN rgCall
    /\ \E max_iterations \in 0..MaxIter :
           /\ rgCall' = [op |-> "find_fixed_point", initial |-> rgCall.initial,
                         max_iterations |-> max_iterations,
                         tolerance |-> rgCall.tolerance,
                         earlier |-> [max_iterations |-> rgCall.max_iterations,
                                      ret |-> rgRet]]
           /\ IF ~is_compatible_with_dimension(rgCall.initial, dimension)
              THEN /\ rgRet' = DimensionMismatch(dimension, rgCall.initial.sd)
                   /\ rgPc' = "done"
                   /\ UNCHANGED <<current, remaining>>
              ELSE /\ current' = current
                   /\ remaining' = FixedPointRounds(max_iterations)
                   /\ rgPc' = "find_fixed_point"
                   /\ rgRet' = [tag |-> "Unit"]
    /\ stepCalls' = 0
    /\ UNCHANGED <<flowVars, catVars, call, ret, funVars, psVars, meshVars>>

\* A second call find_fixed_point(initial, max_iterations, tolerance) on the
\* same flow, after an earlier search from the same initial point with the
\* same tolerance has returned: the earlier budget and result stay with the
\* caller, and the call starts again from initial.clone().
FindFixedPointAgain ==
    /\ rgPc = "done"
    /\ rgCall.op = "find_fixed_point"
    /\ "earlier" \notin DOMAIN rgCall
    /\ \E max_iterations \in 0..MaxIter :
           /\ rgCall' = [op |-> "find_fixed_point", initial |-> rgCall.initial,
                         max_iterations |-> max_iterations,
                         tolerance |-> rgCall.tolerance,
                         earlier |-> [max_iterations |-> rgCall.max_iterations,
                                      ret |-> rgRet]]
           /\ IF ~is_compatible_with_dimension(rgCall.initial, dimension)
              THEN /\ rgRet' = DimensionMismatch(dimension, rgCall.initial.sd)
                   /\ rgPc' = "done"
                   /\ UNCHANGED <<current, remaining>>
              ELSE /\ current' = rgCall.initial
                   /\ remaining' = FixedPointRounds(max_iterations)
                   /\ rgPc' = "find_fixed_point"
                   /\ rgRet' = [tag |-> "Unit"]
    /\ stepCalls' = 0
    /\ UNCHANGED <<flowVars, catVars, call, ret, funVars, psVars, meshVars>>

\* Two searches in a row on one flow.
NextSearchTwice ==
    \/ FindFixedPointCall
    \/ FindFixedPointRound
    \/ FindFixedPointExhausted
    \/ FindFixedPointAgain

SpecSearchTwice == InitRG /\ [][NextSearchTwice]_vars

\* ------------------------------------------------------------------------
\* A functor from the category of the flow to itself and a transformation
\* from it to a second such functor
\* ------------------------------------------------------------------------

\* ConcreteFunctor::new and ConcreteNaturalTransformation::new
InitFunctor ==
    /\ objects = <<"A", "B">>
    /\ morphisms = FlowCategory
    /\ identity_map = BuildIdentityMap(morphisms, Len(morphisms))
    /\ morphism_map = BuildMorphismMap(morphisms, Len(morphisms))
    /\ composition_map = BuildCompositionMap(morphisms, morphism_map)
    /\ call = [op |-> "new"]
    /\ ret = [tag |-> "Self"]
    /\ dimension = 3
    /\ step_fn = "fixed"
    /\ beta_fn = "scaling"
    /\ RGIdle
    /\ object_mapping \in ObjectMappings
    /\ morphism_mapping \in MorphismMappings
    /\ codomain_functor \in [object_mapping : ObjectMappings, morphism_mapping : MorphismMappings]
    /\ components \in ComponentFns
    /\ funCall = [op |-> "none"]
    /\ funRet = [tag |-> "Unit"]
    /\ NoParameterCall
    /\ FieldUnused

NextFunctor ==
    \/ MapObject
    \/ MapMorphism
    \/ VerifyFunctorLaws
    \/ ComponentAt
    \/ VerifyNaturality

SpecFunctor == InitFunctor /\ [][NextFunctor]_vars

\* ------------------------------------------------------------------------
\* Calls on the three parameter spaces
\* ------------------------------------------------------------------------

InitParams ==
    /\ objects = <<"A", "B">>
    /\ morphisms = FlowCategory
    /\ identity_map = BuildIdentityMap(morphisms, Len(morphisms))
    /\ morphism_map = BuildMorphismMap(morphisms, Len(morphisms))
    /\ composition_map = BuildCompositionMap(morphisms, morphism_map)
    /\ call = [op |-> "new"]
    /\ ret = [tag |-> "Self"]
    /\ dimension = 3
    /\ step_fn = "fixed"
    /\ beta_fn = "scaling"
    /\ RGIdle
    /\ FunctorUnused
    /\ NoParameterCall
    /\ FieldUnused

NextParams == ParamDimension \/ AsVector \/ FromVector \/ Distance

SpecParams == InitParams /\ [][NextParams]_vars

\* ------------------------------------------------------------------------
\* Calls on a QTensorField and on the configuration that holds it
\* ------------------------------------------------------------------------

\* QTensorField::new
InitField ==
    /\ objects = <<"A", "B">>
    /\ morphisms = FlowCategory
    /\ identity_map = BuildIdentityMap(morphisms, Len(morphisms))
    /\ morphism_map = BuildMorphismMap(morphisms, Len(morphisms))
    /\ composition_map = BuildCompositionMap(morphisms, morphism_map)
    /\ call = [op |-> "new"]
    /\ ret = [tag |-> "Self"]
    /\ dimension = 3
    /\ step_fn = "fixed"
    /\ beta_fn = "scaling"
    /\ RGIdle
    /\ FunctorUnused
    /\ NoParameterCall
    /\ field = NewField(Resolution)
    /\ fieldSets = 0
    /\ qCall = [op |-> "none"]
    /\ qRet = [tag |-> "Unit"]

NextField == FieldSet \/ FieldGet \/ ObjectMapping \/ ObjectMappingAgain

SpecField == InitField /\ [][NextField]_vars

\* ------------------------------------------------------------------------
\* Properties of the category
\* ------------------------------------------------------------------------

Stored == 1..Len(morphisms)

\* The stored morphisms from object a to object b.
Hom(a, b) == {i \in Stored : morphisms[i].domain = a /\ morphisms[i].codomain = b}

\* The smallest element of a non-empty set of indices.
Lowest(S) == CHOOSE i \in S : \A j \in S : i <= j

\* The elements of the object list.
ObjectSet == {objects[i] : i \in 1..Len(objects)}

\* No two stored morphisms share an endpoint pair.
NoParallel ==
    \A i \in Stored, j \in Stored :
        (morphisms[i].domain = morphisms[j].domain /\ morphisms[i].codomain = morphisms[j].codomain)
            => i = j

\* C1: when the morphism list holds a self-loop on o, identity(o) returns Ok(m)
\* with m a stored morphism whose domain and codomain are o.
C1_IdentityIsSelfLoop ==
    (call.op = "identity" /\ Hom(call.obj, call.obj) # {})
        => /\ ret.tag = "Ok"
           /\ ret.idx \in Hom(call.obj, call.obj)

\* identity was called on an object carrying a self-loop and other morphisms.
C1_Witness ==
    /\ call.op = "identity"
    /\ Hom(call.obj, call.obj) # {}
    /\ \E i \in Stored : morphisms[i].domain = call.obj /\ morphisms[i].codomain # call.obj
    /\ ret.tag = "Ok"

\* C2: when no stored morphism is a self-loop on o, identity(o) returns
\* Err(IdentityNotFound) carrying o.id(), whether or not o is in the object list.
C2_IdentityNotFound ==
    (call.op = "identity" /\ Hom(call.obj, call.obj) = {})
        => ret = Err("IdentityNotFound", call.obj)

\* identity was called on an object outside the object list that has no
\* self-loop, though morphisms leave it.
C2_Witness ==
    /\ call.op = "identity"
    /\ call.obj \notin ObjectSet
    /\ Hom(call.obj, call.obj) = {}
    /\ \E i \in Stored : morphisms[i].domain = call.obj
    /\ ret.tag = "Err"

\* C3: compose(f, g) with codomain(f).id() != domain(g).id() returns
\* Err(CompositionMismatch).
C3_ComposeMismatch ==
    (call.op = "compose" /\ call.f.codomain # call.g.domain)
        => /\ ret.tag = "Err"
           /\ ret.kind = "CompositionMismatch"

\* compose was called on two stored morphisms that do not meet, while a stored
\* morphism goes from the domain of f to the codomain of g.
C3_Witness ==
    /\ call.op = "compose"
    /\ call.f.codomain # call.g.domain
    /\ call.f.idx # 0
    /\ call.g.idx # 0
    /\ Hom(call.f.domain, call.g.codomain) # {}
    /\ ret.tag = "Err"

\* C4: when compose(f, g) returns Ok(h), h is the stored morphism of lowest index
\* from domain(f) to codomain(g), the one find_morphism(domain(f), codomain(g)) returns.
C4_ComposeResult ==
    (call.op = "compose" /\ ret.tag = "Ok")
        => /\ ret.idx \in Hom(call.f.domain, call.g.codomain)
           /\ \A k \in Hom(call.f.domain, call.g.codomain) : ret.idx <= k
           /\ find_morphism(call.f.domain, call.g.codomain) = Some(ret.idx)

\* compose succeeded where two stored morphisms share the endpoint pair of the
\* composite.
C4_Witness ==
    /\ call.op = "compose"
    /\ ret.tag = "Ok"
    /\ Cardinality(Hom(call.f.domain, call.g.codomain)) >= 2

\* C5: in a category without parallel morphisms, identity(o) returns the self-loop
\* of o, find_morphism(a, b) returns the morphism from a to b, and
\* compose(identity of a, f) returns f itself for a stored f: a -> b.
C5_NoParallelLookups ==
    NoParallel =>
        /\ (call.op = "identity" /\ Hom(call.obj, call.obj) # {})
               => ret = Ok(Lowest(Hom(call.obj, call.obj)))
        /\ (call.op = "find_morphism" /\ Hom(call.domain, call.codomain) # {})
               => ret = Some(Lowest(Hom(call.domain, call.codomain)))
        /\ (/\ call.op = "compose"
            /\ call.f.idx # 0
            /\ call.g.idx # 0
            /\ call.f.domain = call.g.domain
            /\ call.f.codomain = call.g.domain)
               => ret = Ok(call.g.idx)

\* Scenario A with the list ordered idB, f, idA: compose(idA, f) returned f.
C5_Witness ==
    /\ objects = <<"A", "B">>
    /\ morphisms = <<[domain |-> "B", codomain |-> "B"],
                     [domain |-> "A", codomain |-> "B"],
                     [domain |-> "A", codomain |-> "A"]>>
    /\ call.op = "compose"
    /\ call.f.idx = 3
    /\ call.g.idx = 2
    /\ ret = Ok(2)

\* C6: find_morphism(domain, codomain) returns Some of the stored morphism of
\* lowest index with that endpoint pair, and None exactly when there is none.
C6_FindMorphism ==
    call.op = "find_morphism" =>
        /\ Hom(call.domain, call.codomain) # {}
               => ret = Some(Lowest(Hom(call.domain, call.codomain)))
        /\ Hom(call.domain, call.codomain) = {} <=> ret = None

\* find_morphism was called on an endpoint pair that two stored morphisms share.
C6_Witness ==
    /\ call.op = "find_morphism"
    /\ Cardinality(Hom(call.domain, call.codomain)) >= 2
    /\ ret.tag = "Some"

\* C7: identity law. For a stored f: A -> B with identities registered on A and
\* on B, compose(identity(A), f) and compose(f, identity(B)) return f itself.
C7_IdentityLaw ==
    (/\ call.op = "compose"
     /\ call.f.idx # 0
     /\ call.g.idx # 0
     /\ identity(call.f.domain).tag = "Ok"
     /\ identity(call.g.codomain).tag = "Ok")
        => /\ (identity(call.g.domain) = Ok(call.f.idx)) => ret = Ok(call.g.idx)
           /\ (identity(call.f.codomain) = Ok(call.g.idx)) => ret = Ok(call.f.idx)

\* The outcome of composing the result r of an earlier compose with h.
ComposeAfter(r, h) ==
    IF r.tag = "Ok" THEN compose(morphisms[r.idx], h) ELSE r

\* The outcome of composing f with the result r of an earlier compose.
ComposeBefore(f, r) ==
    IF r.tag = "Ok" THEN compose(f, morphisms[r.idx]) ELSE r

\* Two outcomes of compose agree: both fail or both are the same stored morphism.
SameOutcome(x, y) ==
    \/ x.tag = "Err" /\ y.tag = "Err"
    \/ x.tag = "Ok" /\ y.tag = "Ok" /\ x.idx = y.idx

\* C8: associativity. For stored f: A -> B, g: B -> C, h: C -> D,
\* compose(compose(f, g), h) and compose(f, compose(g, h)) both fail or both
\* return the same stored morphism.
C8_Associativity ==
    (/\ call.op = "compose"
     /\ call.f.idx # 0
     /\ call.g.idx # 0
     /\ call.f.codomain = call.g.domain)
        => \A k \in Stored :
               morphisms[k].domain = call.g.codomain
                   => SameOutcome(ComposeAfter(ret, morphisms[k]),
                                  ComposeBefore(call.f, compose(call.g, morphisms[k])))

\* ------------------------------------------------------------------------
\* Properties of the flow
\* ------------------------------------------------------------------------

\* n chained calls of the public step, each on the result of the one before.
RECURSIVE ChainStep(_, _)
ChainStep(p, n) ==
    IF n = 0 THEN OkP(p)
    ELSE LET r == ChainStep(p, n - 1)
         IN  IF r.tag = "Err" THEN r ELSE step(r.p)

\* n chained applications of the supplied step function.
RECURSIVE ChainDoStep(_, _)
ChainDoStep(p, n) ==
    IF n = 0 THEN OkP(p)
    ELSE LET r == ChainDoStep(p, n - 1)
         IN  IF r.tag = "Err" THEN r ELSE do_step(r.p)

\* The number of applications a chain of n makes before it ends.
RECURSIVE ChainCalls(_, _)
ChainCalls(p, n) ==
    IF n = 0 THEN 0
    ELSE IF ChainDoStep(p, n - 1).tag = "Err"
         THEN ChainCalls(p, n - 1)
         ELSE ChainCalls(p, n - 1) + 1

\* Every point a chain of n applications passes through before the last
\* application has the spatial dimension of the flow.
ChainKeepsDimension(p, n) ==
    \A k \in 0..(n - 1) :
        ChainDoStep(p, k).tag = "Ok"
            => is_compatible_with_dimension(ChainDoStep(p, k).p, dimension)

IterateDone == rgPc = "done" /\ rgCall.op = "iterate"

\* C9 as stated: iterate(p, 0) returns Ok(p) for any p, without invoking the
\* step function.
C9_IterateZeroAnyPoint ==
    (IterateDone /\ rgCall.steps = 0)
        => /\ rgRet = OkP(rgCall.initial)
           /\ stepCalls = 0

\* C9 as amended: iterate(p, 0) returns Ok(p) without invoking the step function
\* for any p whose spatial dimension is the flow's; for any other p it returns
\* DimensionMismatch, also without invoking the step function.
C9_IterateZero ==
    (IterateDone /\ rgCall.steps = 0)
        => /\ stepCalls = 0
           /\ is_compatible_with_dimension(rgCall.initial, dimension)
                  => rgRet = OkP(rgCall.initial)
           /\ ~is_compatible_with_dimension(rgCall.initial, dimension)
                  => rgRet = DimensionMismatch(dimension, rgCall.initial.sd)

\* iterate(p, 0) returned for a point of the flow's spatial dimension, under a
\* step function that would have moved the point.
C9_Witness ==
    /\ IterateDone
    /\ rgCall.steps = 0
    /\ is_compatible_with_dimension(rgCall.initial, dimension)
    /\ do_step(rgCall.initial) # OkP(rgCall.initial)
    /\ rgRet.tag = "Ok"

\* C10 as stated: the outcome of iterate(initial, n) is that of n chained calls
\* of the public step starting from initial.
C10_IterateIsChainedStep ==
    IterateDone => rgRet = ChainStep(rgCall.initial, rgCall.steps)

\* C10 as amended: for an initial point of the flow's spatial dimension,
\* iterate(initial, n) returns the outcome of n chained applications of the
\* supplied step function, each on the previous result and ending at the first
\* failure; this is the outcome of n chained calls of the public step whenever
\* every intermediate point keeps the flow's spatial dimension.
C10_IterateIsChainedDoStep ==
    (IterateDone /\ is_compatible_with_dimension(rgCall.initial, dimension))
        => /\ rgRet = ChainDoStep(rgCall.initial, rgCall.steps)
           /\ stepCalls = ChainCalls(rgCall.initial, rgCall.steps)
           /\ ChainKeepsDimension(rgCall.initial, rgCall.steps)
                  => rgRet = ChainStep(rgCall.initial, rgCall.steps)

\* iterate ran two rounds or more and returned a point other than the initial
\* one and other than the result of one application.
C10_Witness ==
    /\ IterateDone
    /\ rgCall.steps >= 2
    /\ stepCalls = rgCall.steps
    /\ rgRet.tag = "Ok"
    /\ rgRet.p # rgCall.initial
    /\ rgRet # do_step(rgCall.initial)

\* ---------------------------------------------------------------------
\* The fixed-point search
\* ---------------------------------------------------------------------

FindFixedPointDone == rgPc = "done" /\ rgCall.op = "find_fixed_point"

\* d < tolerance for a whole number d of ticks: d is below the tolerance
\* rounded up to whole ticks.
Below(d, tolerance) == d < -((-tolerance.num) \div tolerance.den)

\* |a - b| of two coordinates.
AbsDiff(a, b) == IF a >= b THEN a - b ELSE b - a

\* Round k of a search from initial exists and its new point is closer than
\* tolerance to the point before it.
ConvergesAt(initial, tolerance, k) ==
    /\ ChainDoStep(initial, k).tag = "Ok"
    /\ Below(AbsDiff(ChainDoStep(initial, k).p.v, ChainDoStep(initial, k - 1).p.v),
             tolerance)

\* k is the first round of a search from initial that converges.
FirstConvergingRound(initial, tolerance, k) ==
    /\ ConvergesAt(initial, tolerance, k)
    /\ \A j \in 1..(k - 1) : ~ConvergesAt(initial, tolerance, j)

\* The result is a fixed point whose parameters are p.
ReturnsParameters(r, p) ==
    /\ r.tag = "Ok"
    /\ "fp" \in DOMAIN r
    /\ r.fp.parameters = p

\* C11 as stated, for every initial point: a search stops at its first
\* converging round k, has then invoked the step function k times, and returns
\* analyze_fixed_point of the newer point.
C11_FirstConvergingRoundAnyInitial ==
    FindFixedPointDone =>
        \A k \in 1..rgCall.max_iterations :
            FirstConvergingRound(rgCall.initial, rgCall.tolerance, k)
                => /\ stepCalls = k
                   /\ rgRet = analyze_fixed_point(ChainDoStep(rgCall.initial, k).p)

\* C11: a search from an initial point of the flow's spatial dimension stops at
\* the first round k (1 <= k <= max_iterations) whose new point is closer than
\* tolerance to the previous one, has then invoked the step function exactly k
\* times, and returns analyze_fixed_point of the newer point: when the analysis
\* succeeds, the returned parameters are the k-th point of the chain.
C11_FirstConvergingRound ==
    (FindFixedPointDone /\ is_compatible_with_dimension(rgCall.initial, dimension)) =>
        \A k \in 1..rgCall.max_iterations :
            FirstConvergingRound(rgCall.initial, rgCall.tolerance, k)
                => /\ stepCalls = k
                   /\ rgRet = analyze_fixed_point(ChainDoStep(rgCall.initial, k).p)
                   /\ rgRet.tag = "Ok"
                          => ReturnsParameters(rgRet, ChainDoStep(rgCall.initial, k).p)

\* A search converged in a round after the first and returned the newer of two
\* different points.
C11_Witness ==
    /\ FindFixedPointDone
    /\ is_compatible_with_dimension(rgCall.initial, dimension)
    /\ stepCalls >= 2
    /\ FirstConvergingRound(rgCall.initial, rgCall.tolerance, stepCalls)
    /\ ReturnsParameters(rgRet, ChainDoStep(rgCall.initial, stepCalls).p)
    /\ ChainDoStep(rgCall.initial, stepCalls).p # ChainDoStep(rgCall.initial, stepCalls - 1).p

\* No round of a search from initial, among the first n, has a new point closer
\* than tolerance to the point before it.
NoRoundConverges(initial, tolerance, n) ==
    \A k \in 1..n : ~ConvergesAt(initial, tolerance, k)

\* Each of the first n rounds of a search from initial yields a new point.
EveryRoundSteps(initial, n) == ChainDoStep(initial, n).tag = "Ok"

\* A returned fixed point comes from a round that converged.
NoFalseConvergence ==
    (FindFixedPointDone /\ rgRet.tag = "Ok")
        => /\ stepCalls >= 1
           /\ ConvergesAt(rgCall.initial, rgCall.tolerance, stepCalls)

\* C12 as stated, for every initial point and step function: when no round has
\* a distance below tolerance, the search invokes step max_iterations times
\* and returns Err(FixedPointNotFound).
C12_NotFoundWheneverNoRoundConverges ==
    /\ NoFalseConvergence
    /\ (FindFixedPointDone
            /\ NoRoundConverges(rgCall.initial, rgCall.tolerance, rgCall.max_iterations))
           => /\ stepCalls = rgCall.max_iterations
              /\ rgRet = FixedPointNotFound

\* C12: a search never reports a false convergence. A fixed point is returned
\* only from a round whose distance is below tolerance; and when the initial
\* point has the flow's spatial dimension, every round's step yields a point and
\* no round's distance is below tolerance, the search invokes step exactly
\* max_iterations times and returns Err(FixedPointNotFound).
C12_NoFalseConvergence ==
    /\ NoFalseConvergence
    /\ (FindFixedPointDone
            /\ is_compatible_with_dimension(rgCall.initial, dimension)
            /\ EveryRoundSteps(rgCall.initial, rgCall.max_iterations)
            /\ NoRoundConverges(rgCall.initial, rgCall.tolerance, rgCall.max_iterations))
           => /\ stepCalls = rgCall.max_iterations
              /\ rgRet = FixedPointNotFound

\* The divergent flow x -> 1.5 * x, searched from 10.0 with tolerance 0.001 for
\* twenty rounds, has ended without a fixed point.
C12_Witness ==
    /\ FindFixedPointDone
    /\ step_fn = "expand"
    /\ is_compatible_with_dimension(rgCall.initial, dimension)
    /\ rgCall.initial.v = TenUnits
    /\ rgCall.tolerance = [num |-> TenUnits, den |-> 10000]
    /\ rgCall.max_iterations = 20
    /\ stepCalls = 20
    /\ rgRet = FixedPointNotFound

\* The search of the contracting flow x -> target + 0.5 * (x - target) from
\* target + 10.0 with tolerance 0.001, on a flow whose beta function succeeds,
\* has ended.
ContractingSearchDone ==
    /\ FindFixedPointDone
    /\ step_fn = "contract"
    /\ beta_fn = "scaling"
    /\ is_compatible_with_dimension(rgCall.initial, dimension)
    /\ rgCall.initial.v = Target + TenUnits
    /\ rgCall.tolerance = [num |-> TenUnits, den |-> 10000]

IsConverged(r) == r.tag = "Ok" /\ "fp" \in DOMAIN r
IsNotFound(r) == r = FixedPointNotFound

\* The search was refused: its initial point has another spatial dimension.
IsRejected ==
    /\ ~is_compatible_with_dimension(rgCall.initial, dimension)
    /\ rgRet = DimensionMismatch(dimension, rgCall.initial.sd)
    /\ stepCalls = 0

\* The search ended with the error of its last step invocation.
IsStepFailure ==
    /\ stepCalls >= 1
    /\ rgRet.tag = "Err"
    /\ rgRet = ChainDoStep(rgCall.initial, stepCalls)

\* The search converged and ended with the error of the analysis of the
\* point it found.
IsAnalysisFailure ==
    /\ stepCalls >= 1
    /\ ConvergesAt(rgCall.initial, rgCall.tolerance, stepCalls)
    /\ rgRet.tag = "Err"
    /\ rgRet = beta_function(ChainDoStep(rgCall.initial, stepCalls).p)

\* Until a search has ended the caller holds no result of it.
NoPartialResult ==
    (rgCall.op = "find_fixed_point" /\ rgPc # "done") => rgRet = [tag |-> "Unit"]

\* C14 as stated: every search ends as Converged (an RGFixedPoint) or as
\* NotFound (FixedPointNotFound), and in no other way.
C14_ConvergedOrNotFound ==
    /\ NoPartialResult
    /\ FindFixedPointDone => (IsConverged(rgRet) \/ IsNotFound(rgRet))

\* C14: every search ends in exactly one terminal outcome: Converged (an
\* RGFixedPoint), NotFound (FixedPointNotFound), or a propagated error: the
\* DimensionMismatch of a refused initial point, the error of a step
\* invocation, or the error of the analysis of the point found. No result is
\* observable before the search has ended.
C14_TerminalOutcomes ==
    /\ NoPartialResult
    /\ FindFixedPointDone
           => /\ \/ IsConverged(rgRet)
                 \/ IsNotFound(rgRet)
                 \/ IsRejected
                 \/ IsStepFailure
                 \/ IsAnalysisFailure
              /\ ~(IsConverged(rgRet) /\ IsNotFound(rgRet))
              /\ rgRet.tag \in {"Ok", "Err"}

\* A search ended with the error of its third or a later step invocation.
C14_Witness ==
    /\ FindFixedPointDone
    /\ stepCalls >= 3
    /\ IsStepFailure
    /\ ~IsConverged(rgRet)
    /\ ~IsNotFound(rgRet)

\* C15: a search always terminates, for every initial point, tolerance and
\* max_iterations, and has at no time invoked the step function more than
\* max_iterations times.
C15_SearchTerminates ==
    /\ [](rgCall.op = "find_fixed_point" => stepCalls <= rgCall.max_iterations)
    /\ (rgPc = "find_fixed_point") ~> (rgPc = "done")

\* A search of twenty or more rounds ended after using every one of them.
C15_Witness ==
    /\ FindFixedPointDone
    /\ rgCall.max_iterations >= 20
    /\ stepCalls = rgCall.max_iterations

\* ---------------------------------------------------------------------
\* The analysis of a fixed point
\* ---------------------------------------------------------------------

\* analyze_fixed_point was called on a fixed point of the step map and
\* returned an RGFixedPoint.
AnalyzedFixedPoint ==
    /\ rgPc = "done"
    /\ rgCall.op = "analyze_fixed_point"
    /\ do_step(rgCall.fixed_point) = OkP(rgCall.fixed_point)
    /\ IsConverged(rgRet)

\* Twice the magnitude of the Jacobian of the step map at p (one coordinate,
\* so its only eigenvalue), as the difference of the map over two ticks.
TwiceSlope(p) ==
    AbsDiff(do_step([p EXCEPT !.v = p.v + 2]).p.v, do_step(p).p.v)

\* C18: analyze_fixed_point classifies a fixed point p from the Jacobian of the
\* step map at p: "stable" only when every eigenvalue magnitude is below 1,
\* "unstable" when all are above 1.
C18_ClassifiesByJacobian ==
    AnalyzedFixedPoint
        => /\ rgRet.fp.classification = "stable" => TwiceSlope(rgCall.fixed_point) < 2
           /\ TwiceSlope(rgCall.fixed_point) > 2 => rgRet.fp.classification = "unstable"

\* ---------------------------------------------------------------------
\* Functor laws and naturality
\* ---------------------------------------------------------------------

\* The stored morphism a successful compose or identity refers to.
MorOf(r) == morphisms[r.idx]

\* compose(f, g) succeeds and its result is the morphism m.
ComposesTo(f, g, m) == compose(f, g).tag = "Ok" /\ MorOf(compose(f, g)) = m

\* F(compose(f, g)) equals compose(F(f), F(g)) for the composable pair f, g.
PreservesComposite(f, g) ==
    LET c == compose(f, g)
    IN  c.tag = "Ok"
            => /\ map_morphism(f).tag = "Ok"
               /\ map_morphism(g).tag = "Ok"
               /\ map_morphism(MorOf(c)).tag = "Ok"
               /\ ComposesTo(map_morphism(f).mor, map_morphism(g).mor,
                             map_morphism(MorOf(c)).mor)

\* F(identity(obj)) equals identity(F(obj)).
PreservesIdentity(obj) ==
    LET i == identity(obj)
        j == identity(map_object(obj))
    IN  i.tag = "Ok"
            => /\ map_morphism(MorOf(i)).tag = "Ok"
               /\ j.tag = "Ok"
               /\ map_morphism(MorOf(i)).mor = MorOf(j)

\* The two functor laws, over the composable pairs and the objects of the
\* category.
FunctorLawsHold ==
    /\ \A i \in Stored, j \in Stored :
           morphisms[i].codomain = morphisms[j].domain
               => PreservesComposite(morphisms[i], morphisms[j])
    /\ \A k \in 1..Len(objects) : PreservesIdentity(objects[k])

\* C16: verify_functor_laws returns true when the functor preserves every
\* composite and every identity of the source, and false for a functor whose
\* morphism mapping breaks one of the two equations.
C16_VerifiesFunctorLaws ==
    (funCall.op = "verify_functor_laws") => (funRet.val <=> FunctorLawsHold)

\* G.map_morphism(f)
codomain_map_morphism(f) == ApplyMorphismMapping(codomain_functor.morphism_mapping, f)

\* The naturality square of f: X -> Y commutes: component_at(X) followed by
\* G(f), and F(f) followed by component_at(Y), are the same morphism of the
\* target.
SquareCommutes(f) ==
    /\ map_morphism(f).tag = "Ok"
    /\ codomain_map_morphism(f).tag = "Ok"
    /\ compose(component_at(f.domain), codomain_map_morphism(f).mor).tag = "Ok"
    /\ compose(map_morphism(f).mor, component_at(f.codomain)).tag = "Ok"
    /\ compose(component_at(f.domain), codomain_map_morphism(f).mor)
           = compose(map_morphism(f).mor, component_at(f.codomain))

\* C17: verify_naturality(f) returns true only if the naturality square of f
\* commutes in the target category, and false when the two composites differ.
C17_VerifiesNaturality ==
    (funCall.op = "verify_naturality" /\ \E i \in Stored : morphisms[i] = funCall.f)
        => (funRet.val <=> SquareCommutes(funCall.f))

\* ---------------------------------------------------------------------
\* The parameter spaces
\* ---------------------------------------------------------------------

DistanceDone == psCall.op = "distance"

\* Every entry of the vector of p is a finite number.
FiniteVector(kind, p) == \A i \in 1..Len(as_vector(kind, p)) : ~as_vector(kind, p)[i].nan

\* C19 as stated, for all values: distance(p, p) == 0 and
\* distance(a, b) == distance(b, a).
C19_MetricSanityAllValues ==
    DistanceDone
        => /\ psCall.a = psCall.b => F64Eq(psRet.d, Finite(0))
           /\ F64Eq(psRet.d, vector_distance(psCall.kind, psCall.b, psCall.a))

\* C19: for each of the three parameter spaces and all values p, a, b whose
\* vector entries are finite numbers, distance(p, p) == 0 and
\* distance(a, b) == distance(b, a); a NaN entry makes every distance NaN,
\* which equals nothing.
C19_MetricSanity ==
    DistanceDone
        => /\ (FiniteVector(psCall.kind, psCall.a) /\ FiniteVector(psCall.kind, psCall.b))
                  => /\ psCall.a = psCall.b => F64Eq(psRet.d, Finite(0))
                     /\ F64Eq(psRet.d, vector_distance(psCall.kind, psCall.b, psCall.a))
           /\ ~(FiniteVector(psCall.kind, psCall.a) /\ FiniteVector(psCall.kind, psCall.b))
                  => psRet.d.nan

\* The distance of two different points with finite and different vectors was
\* taken, and is not 0.
C19_Witness ==
    /\ DistanceDone
    /\ FiniteVector(psCall.kind, psCall.a)
    /\ FiniteVector(psCall.kind, psCall.b)
    /\ as_vector(psCall.kind, psCall.a) # as_vector(psCall.kind, psCall.b)
    /\ as_vector(psCall.kind, psCall.a) # as_vector(psCall.kind, BasePoint(psCall.kind))
    /\ ~psRet.d.nan
    /\ psRet.d.v > 0

\* C20: from_vector is the inverse of as_vector: from_vector(as_vector(p))
\* succeeds with a value equal to p in every field, and as_vector(p) has
\* exactly dimension() entries.
C20_FromVectorInvertsAsVector ==
    /\ psCall.op = "as_vector"
           => Len(psRet.vec) = param_dimension(psCall.kind, psCall.p)
    /\ (psCall.op = "from_vector" /\ psCall.vec = as_vector(psCall.kind, psCall.p))
           => psRet = OkP(psCall.p)

\* ---------------------------------------------------------------------
\* The category after construction
\* ---------------------------------------------------------------------

\* What the call in flight returns when it is made on the category as it is
\* now.
AnswerNow ==
    CASE call.op = "objects" -> [tag |-> "Slice", items |-> objects]
      [] call.op = "morphisms" -> [tag |-> "Slice", items |-> morphisms]
      [] call.op = "identity" -> identity(call.obj)
      [] call.op = "find_morphism" -> find_morphism(call.domain, call.codomain)
      [] call.op = "compose" -> compose(call.f, call.g)
      [] OTHER -> ret

\* C21: a FinCategory is immutable after construction: no objects, morphisms,
\* identity, find_morphism or compose call, successful or failing, changes the
\* object list, the morphism list, identity_map, morphism_map or
\* composition_map, and the result a caller holds is the one the same query
\* returns on the category at any later point.
C21_ImmutableAfterConstruction ==
    /\ [][catVars' = catVars]_vars
    /\ [](ret = AnswerNow)

\* A failing compose of two stored morphisms has returned.
C21_Witness ==
    /\ call.op = "compose"
    /\ ret.tag = "Err"
    /\ Position(call.f) # 0
    /\ Position(call.g) # 0

\* ---------------------------------------------------------------------
\* Purity of the supplied functions
\* ---------------------------------------------------------------------

\* C22: the object mapping of the meso-to-macro functor is pure: called twice
\* on the same MesoscopicConfiguration it returns the same
\* MacroscopicConfiguration, with the same defects and charges.
C22_ObjectMappingIsPure ==
    (qCall.op = "object_mapping" /\ qCall.calls = 2) => qRet.obj = qCall.earlier

\* ---------------------------------------------------------------------
\* QTensorField
\* ---------------------------------------------------------------------

\* The coordinates are inside the resolution of the field.
InsideResolution(f, i, j, k) ==
    i < f.resolution[1] /\ j < f.resolution[2] /\ k < f.resolution[3]

\* The grid points of the field.
GridPoints(f) ==
    {<<i, j, k>> : i \in 0..(f.resolution[1] - 1), j \in 0..(f.resolution[2] - 1),
                   k \in 0..(f.resolution[3] - 1)}

\* C30: set(i, j, k, q) succeeds only for grid points inside the resolution:
\* outside it returns Err(InvalidFieldConfiguration) and changes no cell; on
\* success a later get(i, j, k) returns q and every other grid point keeps its
\* value.
C30_SetChecksResolution ==
    qCall.op = "set" =>
        IF InsideResolution(qCall.before, qCall.i, qCall.j, qCall.k)
        THEN /\ qRet.tag = "Ok"
             /\ field_get(field, qCall.i, qCall.j, qCall.k) = [tag |-> "Some", q |-> qCall.q]
             /\ \A pt \in GridPoints(field) \ {<<qCall.i, qCall.j, qCall.k>>} :
                    field_get(field, pt[1], pt[2], pt[3])
                        = field_get(qCall.before, pt[1], pt[2], pt[3])
        ELSE /\ qRet = InvalidFieldConfiguration
             /\ field = qCall.before

\* ---------------------------------------------------------------------
\* The outcomes of compose
\* ---------------------------------------------------------------------

\* The four conditions of a successful compose(f, g).
Composable(f, g) ==
    /\ Hom(f.domain, f.codomain) # {}
    /\ Hom(g.domain, g.codomain) # {}
    /\ f.codomain = g.domain
    /\ Hom(f.domain, g.codomain) # {}

\* C23: compose(f, g) succeeds exactly when some stored morphism has the
\* endpoint pair of f, some stored morphism has the endpoint pair of g,
\* codomain(f) = domain(g), and a stored morphism goes from domain(f) to
\* codomain(g); in every other case it returns Err(CompositionMismatch).
C23_ComposeSucceedsExactlyWhen ==
    call.op = "compose"
        => IF Composable(call.f, call.g)
           THEN ret.tag = "Ok"
           ELSE ret.tag = "Err" /\ ret.kind = "CompositionMismatch"

\* compose failed with CompositionMismatch on a first argument that no stored
\* morphism matches, although the arguments meet and a stored morphism goes
\* from domain(f) to codomain(g).
C23_Witness ==
    /\ call.op = "compose"
    /\ Hom(call.f.domain, call.f.codomain) = {}
    /\ Hom(call.g.domain, call.g.codomain) # {}
    /\ call.f.codomain = call.g.domain
    /\ Hom(call.f.domain, call.g.codomain) # {}
    /\ ret.tag = "Err"
    /\ ret.kind = "CompositionMismatch"

\* The arguments with the endpoint ids of m: stored, parallel or not stored.
SameEndpoints(m) == {x \in MorArgs : x.domain = m.domain /\ x.codomain = m.codomain}

\* C24: the outcome of compose(f, g) depends only on the endpoint ids of f and
\* g: any f' and g' with the same endpoint ids, stored or not, give the same
\* stored morphism or fail as well.
C24_ComposeByEndpointsOnly ==
    call.op = "compose"
        => \A f2 \in SameEndpoints(call.f), g2 \in SameEndpoints(call.g) :
               SameOutcome(compose(f2, g2), ret)

\* compose succeeded on a morphism that is not stored and on the second of
\* two parallel stored morphisms.
C24_Witness ==
    /\ call.op = "compose"
    /\ call.f.idx = 0
    /\ call.g.idx # 0
    /\ call.g.idx # Lowest(Hom(call.g.domain, call.g.codomain))
    /\ ret.tag = "Ok"

\* ---------------------------------------------------------------------
\* Errors of the engine
\* ---------------------------------------------------------------------

\* The point a finished call on the flow was made with.
CallArgument ==
    CASE rgCall.op = "step" -> rgCall.params
      [] rgCall.op = "beta_function" -> rgCall.params
      [] rgCall.op = "iterate" -> rgCall.initial
      [] rgCall.op = "find_fixed_point" -> rgCall.initial

\* The result is a DimensionMismatch error.
IsDimensionMismatch(r) == r.tag = "Err" /\ r.kind = "DimensionMismatch"

\* C25: step, iterate, find_fixed_point and beta_function return
\* Err(DimensionMismatch { expected: the flow's spatial dimension, actual: the
\* argument's }) without invoking the supplied function whenever the two
\* differ; iterate and find_fixed_point check the initial point only: with an
\* initial point of the flow's dimension, iterate never returns
\* DimensionMismatch and find_fixed_point only as the error of the analysis
\* of the point it found.
C25_DimensionMismatch ==
    (rgPc = "done" /\ rgCall.op \in {"step", "beta_function", "iterate", "find_fixed_point"})
        => IF CallArgument.sd # dimension
           THEN /\ rgRet = [tag |-> "Err", kind |-> "DimensionMismatch",
                            expected |-> dimension, actual |-> CallArgument.sd]
                /\ stepCalls = 0
           ELSE /\ rgCall.op = "iterate" => ~IsDimensionMismatch(rgRet)
                /\ (rgCall.op = "find_fixed_point" /\ IsDimensionMismatch(rgRet))
                       => IsAnalysisFailure
                /\ rgCall.op = "iterate"
                       => stepCalls = ChainCalls(rgCall.initial, rgCall.steps)

\* beta_function was refused for a point of another spatial dimension on a
\* flow whose beta function fails at every point.
C25_Witness ==
    /\ rgPc = "done"
    /\ rgCall.op = "beta_function"
    /\ rgCall.params.sd # dimension
    /\ beta_fn = "failing"
    /\ IsDimensionMismatch(rgRet)

\* The k-th invocation of the step function in a chain from initial is the
\* first that fails.
FirstFailingStep(initial, k) ==
    /\ ChainDoStep(initial, k - 1).tag = "Ok"
    /\ ChainDoStep(initial, k).tag = "Err"

\* C26: errors are propagated without local recovery. If the k-th invocation
\* of the step function fails during iterate or find_fixed_point, that error is
\* returned and the step function is not invoked again; if find_fixed_point
\* detects convergence but the beta function fails inside analyze_fixed_point,
\* it returns that error instead of an RGFixedPoint or FixedPointNotFound.
C26_ErrorsPropagate ==
    /\ (IterateDone /\ rgCall.initial.sd = dimension)
           => \A k \in 1..rgCall.steps :
                  FirstFailingStep(rgCall.initial, k)
                      => /\ rgRet = do_step(ChainDoStep(rgCall.initial, k - 1).p)
                         /\ stepCalls = k
    /\ (FindFixedPointDone /\ rgCall.initial.sd = dimension)
           => \A k \in 1..rgCall.max_iterations :
                  /\ (FirstFailingStep(rgCall.initial, k)
                          /\ NoRoundConverges(rgCall.initial, rgCall.tolerance, k - 1))
                         => /\ rgRet = do_step(ChainDoStep(rgCall.initial, k - 1).p)
                            /\ stepCalls = k
                  /\ (FirstConvergingRound(rgCall.initial, rgCall.tolerance, k)
                          /\ ApplyBetaFn(beta_fn, ChainDoStep(rgCall.initial, k).p).tag = "Err"
                          /\ ChainDoStep(rgCall.initial, k).p.sd = dimension)
                         => /\ rgRet = ApplyBetaFn(beta_fn, ChainDoStep(rgCall.initial, k).p)
                            /\ stepCalls = k

\* A search converged in its second or a later round and returned the error
\* of the beta function; before it, a step had succeeded.
C26_Witness ==
    /\ FindFixedPointDone
    /\ rgCall.initial.sd = dimension
    /\ stepCalls >= 2
    /\ FirstConvergingRound(rgCall.initial, rgCall.tolerance, stepCalls)
    /\ rgRet = IterationError

\* ---------------------------------------------------------------------
\* Several self-loops on one object
\* ---------------------------------------------------------------------

\* The greatest element of a non-empty set of indices.
Greatest(S) == CHOOSE i \in S : \A j \in S : i >= j

\* C27: when several stored morphisms are self-loops on the same object o,
\* identity(o) returns the one of greatest list index, whereas
\* find_morphism(o, o) and the composition table use the one of smallest
\* index.
C27_LastIdentityFirstLookup ==
    /\ (call.op = "identity" /\ Hom(call.obj, call.obj) # {})
           => ret = Ok(Greatest(Hom(call.obj, call.obj)))
    /\ (call.op = "find_morphism" /\ call.domain = call.codomain
            /\ Hom(call.domain, call.domain) # {})
           => ret = Some(Lowest(Hom(call.domain, call.domain)))
    /\ \A pair \in DOMAIN composition_map :
           morphisms[pair[1]].domain = morphisms[pair[2]].codomain
               => composition_map[pair]
                      = Lowest(Hom(morphisms[pair[1]].domain, morphisms[pair[1]].domain))

\* identity was called on an object with three self-loops, which also fill
\* the composition table, and returned the last of them.
C27_Witness ==
    /\ call.op = "identity"
    /\ \E i \in Stored, j \in Stored, k \in Stored :
           /\ i < j
           /\ j < k
           /\ {i, j, k} \subseteq Hom(call.obj, call.obj)
           /\ ret = Ok(k)
           /\ composition_map[<<k, k>>] = i

\* ---------------------------------------------------------------------
\* The search with a tolerance that is not positive, or without a budget
\* ---------------------------------------------------------------------

\* The tolerance of the search is zero or negative.
ToleranceNotPositive == rgCall.tolerance.num <= 0

\* The initial point of the search is an exact fixed point of the step
\* function: step(p) == p, at distance 0.
InitialIsFixedPoint == do_step(rgCall.initial) = OkP(rgCall.initial)

\* With tolerance <= 0 no search returns an RGFixedPoint, and a search from an
\* exact fixed point uses every round and returns Err(FixedPointNotFound).
StrictConvergenceTest ==
    (FindFixedPointDone /\ ToleranceNotPositive)
        => /\ ~IsConverged(rgRet)
           /\ (is_compatible_with_dimension(rgCall.initial, dimension)
                   /\ InitialIsFixedPoint)
                  => /\ rgRet = FixedPointNotFound
                     /\ stepCalls = rgCall.max_iterations

\* C28 as stated: the convergence test is strict, and with
\* max_iterations == 0 every search returns Err(FixedPointNotFound) without
\* invoking step.
C28_NoBudgetAlwaysNotFound ==
    /\ StrictConvergenceTest
    /\ (FindFixedPointDone /\ rgCall.max_iterations = 0)
           => /\ rgRet = FixedPointNotFound
              /\ stepCalls = 0

\* C28: the convergence test of find_fixed_point is a strict inequality. With
\* tolerance <= 0 it never returns an RGFixedPoint, even when the initial point
\* is an exact fixed point: it then invokes step max_iterations times and
\* returns Err(FixedPointNotFound). With max_iterations == 0 it invokes step
\* not at all, and returns Err(FixedPointNotFound) when the initial point has
\* the flow's spatial dimension and Err(DimensionMismatch) when it has not.
C28_StrictTestAndNoBudget ==
    /\ StrictConvergenceTest
    /\ (FindFixedPointDone /\ rgCall.max_iterations = 0)
           => /\ stepCalls = 0
              /\ rgRet = IF is_compatible_with_dimension(rgCall.initial, dimension)
                         THEN FixedPointNotFound
                         ELSE DimensionMismatch(dimension, rgCall.initial.sd)

\* A search with tolerance 0 from an exact fixed point has used its budget of
\* two or more rounds, each at distance 0, and returned FixedPointNotFound.
C28_Witness ==
    /\ FindFixedPointDone
    /\ rgCall.tolerance.num = 0
    /\ is_compatible_with_dimension(rgCall.initial, dimension)
    /\ InitialIsFixedPoint
    /\ rgCall.max_iterations >= 2
    /\ stepCalls = rgCall.max_iterations
    /\ distance(current, rgCall.initial) = 0
    /\ rgRet = FixedPointNotFound

\* ---------------------------------------------------------------------
\* Two searches from one point with different budgets
\* ---------------------------------------------------------------------

\* A second search has returned, after an earlier one from the same point.
SecondSearchDone == FindFixedPointDone /\ "earlier" \in DOMAIN rgCall

\* C29: for a pure step function the outcome of find_fixed_point is monotone
\* in its budget, and successive calls share no state. When a search with
\* budget N returned a fixed point, a later search with a budget N' >= N
\* returns a fixed point with the same parameters; when it returned
\* FixedPointNotFound, a later search with a budget N' <= N returns
\* FixedPointNotFound.
C29_MonotoneInBudget ==
    SecondSearchDone =>
        /\ (IsConverged(rgCall.earlier.ret)
                /\ rgCall.max_iterations >= rgCall.earlier.max_iterations)
               => /\ IsConverged(rgRet)
                  /\ rgRet.fp.parameters = rgCall.earlier.ret.fp.parameters
        /\ (IsNotFound(rgCall.earlier.ret)
                /\ rgCall.max_iterations <= rgCall.earlier.max_iterations)
               => IsNotFound(rgRet)

\* After a search with a budget of three or more rounds found nothing and left
\* a point other than the initial one, a second search with a smaller budget
\* of at least two rounds found nothing either.
C29_Witness ==
    /\ SecondSearchDone
    /\ IsNotFound(rgCall.earlier.ret)
    /\ rgCall.earlier.max_iterations >= 3
    /\ rgCall.max_iterations < rgCall.earlier.max_iterations
    /\ rgCall.max_iterations >= 2
    /\ current # rgCall.initial
    /\ IsNotFound(rgRet)

====
